---- MODULE Spec2Model ----
(***************************************************************************)
(* Model of the authentication flow of src/app.js: the /signup and /signin *)
(* handlers, the users collection with its unique username index, bcrypt,  *)
(* jsonwebtoken and the mail transport.                                    *)
(*                                                                         *)
(* A handler is an async function: the code between two awaits runs        *)
(* atomically on the event loop, and every await is a point where other    *)
(* requests interleave.  Each action below is one resumption of a handler: *)
(* the awaited collaborator call takes effect (or fails) and the handler   *)
(* runs on to its next await or to its response.                           *)
(*                                                                         *)
(* connectDB() is called without await and app.listen does not wait for    *)
(* it: requests are received while mongoose.connect is pending.  Until the *)
(* connection is up mongoose buffers the model calls, which can then only  *)
(* fail (buffering timeout); if the connection fails, process.exit(1) ends *)
(* the process with whatever handlers are suspended.                       *)
(*                                                                         *)
(* The schema only declares username unique.  Mongoose builds the index in *)
(* the background once the connection is up and app.js never waits for it: *)
(* until the build has succeeded the collection accepts a second document  *)
(* of a username, and the build fails for good on a collection that        *)
(* already holds duplicates.                                               *)
(*                                                                         *)
(* Request bodies carry non-empty strings (spec 4.5 step 1).               *)
(***************************************************************************)
EXTENDS Integers, Sequences, FiniteSets

VARIABLES
    users,      \* the "users" collection: sequence of documents, insertion order
    secretkey,  \* process.env.SECRETKEY read at startup: <<>> when unset, else <<key>>
    req,        \* the requests received so far, in arrival order
    outbox,     \* the mails handed to transporter.sendMail that were accepted
    index,      \* the unique username index in the database: "absent" or "built"
    db,         \* connectDB: "connecting", then "connected", or "exited" (process.exit)
    script      \* the requests a sequential client still has to issue (Scenario only)

vars == <<users, secretkey, req, outbox, index, db, script>>

----------------------------------------------------------------------------
(* Bounds of the model *)

MaxReq == 2

----------------------------------------------------------------------------
(* Program constants *)

SaltRounds == 10
ExpiresInSeconds == 3600
BcryptMaxBytes == 72
MsPerSecond == 1000
StatusOk == 200
StatusError == 500

----------------------------------------------------------------------------
(* Input domains *)

Usernames == {"alice", "bob"}
\* No branch of the handlers reads the email: one address stands for all.
Emails == {"a@x.com"}

Pad == [i \in 1..BcryptMaxBytes |-> 97]
Secret1 == <<115, 49>>
LongA == Append(Pad, 98)
LongB == Append(Pad, 99)
Passwords == {Secret1, LongA, LongB}

Salts == {"saltA"}
Keys == {"k"}
Errs == {"ECONNRESET", "ETIMEDOUT"}
Outcomes == {"ok"} \cup Errs
Clocks == {5000, 5999}

MsgTaken == "Username already exists"
MsgSignupOk == "Signup successful & email sent"
MsgNotFound == "User not found"
MsgInvalid == "Invalid username or password"
MsgLoginOk == "Login successful"
MsgDupKey == "E11000 duplicate key error collection: users index: username_1"
MsgNoSecret == "secretOrPrivateKey must have a value"

----------------------------------------------------------------------------
(* bcrypt *)

Min(a, b) == IF a < b THEN a ELSE b

\* bcrypt uses the first 72 bytes of the password only.
BcryptKey(password) == SubSeq(password, 1, Min(Len(password), BcryptMaxBytes))

\* bcrypt.hash(password, 10): a fresh random salt, then the salted digest.
BcryptHash(password, salt) ==
    [salt |-> salt, rounds |-> SaltRounds, key |-> BcryptKey(password)]

\* bcrypt.compare(password, hash): re-hash with the stored salt and compare.
BcryptCompare(password, hash) ==
    BcryptHash(password, hash.salt) = hash

----------------------------------------------------------------------------
(* The users collection *)

Matching(coll, username) == {i \in 1..Len(coll) : coll[i].username = username}

\* User.findOne({ username }): the first matching document, or null (<<>>).
FindOne(coll, username) ==
    IF Matching(coll, username) = {} THEN <<>>
    ELSE <<coll[CHOOSE i \in Matching(coll, username) :
                  \A j \in Matching(coll, username) : i <= j]>>

\* A collection whose username index was never built.
NoUniqueIndex(coll, username) == FALSE

\* username: { unique: true }: once built, the index rejects a second document of
\* a username.
UniqueIndexViolated(coll, username) ==
    index = "built" /\ Matching(coll, username) # {}

HasDuplicates(coll) ==
    \E i \in 1..Len(coll), j \in 1..Len(coll) :
        i # j /\ coll[i].username = coll[j].username

\* An upsert keyed on the email: it drops the documents that carry doc's email.
InsertReplacing(coll, doc) ==
    Append(SelectSeq(coll, LAMBDA d : d.email # doc.email), doc)

\* The insert of User.create.
Insert(coll, doc) == Append(coll, doc)

----------------------------------------------------------------------------
(* jsonwebtoken *)

\* jwt.sign with expiresIn: "1m".
JwtSignOneMinute(username, key, nowMs) ==
    [username |-> username,
     iat |-> nowMs \div MsPerSecond,
     exp |-> (nowMs \div MsPerSecond) + (ExpiresInSeconds \div 60),
     sig |-> key]

\* jwt.sign({ username }, secretkey, { expiresIn: "1h" }) at Date.now() = nowMs.
JwtSign(username, key, nowMs) ==
    [username |-> username,
     iat |-> nowMs \div MsPerSecond,
     exp |-> (nowMs \div MsPerSecond) + ExpiresInSeconds,
     sig |-> key]

\* The validity check of a token consumer: signature, then now < expiry.
JwtValid(token, key, nowMs) ==
    /\ token.sig = key
    /\ (nowMs \div MsPerSecond) < token.exp

----------------------------------------------------------------------------
(* Requests and responses *)

Response(status, msg, token) == [status |-> status, msg |-> msg, tokenKey |-> token]

\* res.json({ msg })
Json(msg) == Response(StatusOk, msg, <<>>)

\* One awaited (or synchronous) collaborator call of a handler and how it settled.
Call(op, result) == [op |-> op, result |-> result]

NewRequest(kind, username, email, password) ==
    [kind |-> kind, username |-> username, email |-> email, password |-> password,
     pc |-> "findOne", hashedPassword |-> <<>>, user |-> <<>>,
     calls |-> <<>>, clock |-> 0, resp |-> <<>>]

\* The handler sends a response and returns: its locals and body are released.
Respond(q, call, response) ==
    [q EXCEPT !.pc = "done", !.calls = Append(@, call), !.resp = Append(@, response),
              !.email = "", !.password = <<>>, !.hashedPassword = <<>>, !.user = <<>>]

\* catch (error) { res.status(500).json({ msg: error.message }) }
Catch(q, op, message) ==
    Respond(q, Call(op, "error"), Response(StatusError, message, <<>>))

\* The handler goes on to its next await.
Await(q, call, pc) == [q EXCEPT !.pc = pc, !.calls = Append(@, call)]

\* The process has not exited.
Running == db # "exited"

At(r, kind, pc) ==
    Running /\ r \in DOMAIN req /\ req[r].kind = kind /\ req[r].pc = pc

\* A model call (findOne, create) completes only on an open connection.
Completes(out) == out = "ok" => db = "connected"

----------------------------------------------------------------------------
(* Initial states *)

Init ==
    /\ users = <<>>
    /\ secretkey \in {<<>>} \cup {<<k>> : k \in Keys}
    /\ req = <<>>
    /\ outbox = <<>>
    /\ index = "absent"
    /\ db = "connecting"
    /\ script = <<>>

----------------------------------------------------------------------------
(* connectDB *)

\* await mongoose.connect(...) settles: connected, or catch { process.exit(1) }.
ConnectDB ==
    /\ db = "connecting"
    /\ \E out \in Outcomes : db' = IF out = "ok" THEN "connected" ELSE "exited"
    /\ UNCHANGED <<users, secretkey, req, outbox, index, script>>

\* mongoose.model("users", userSchema): the background index build (autoIndex)
\* succeeds, after the connection opened.  A build that fails, as it does on a
\* collection with duplicates, leaves the index absent and is not tried again.
EnsureIndexes ==
    /\ Running
    /\ db = "connected"
    /\ index = "absent"
    /\ ~HasDuplicates(users)
    /\ index' = "built"
    /\ UNCHANGED <<users, secretkey, req, outbox, db, script>>

----------------------------------------------------------------------------
(* POST /signup *)

\* The handler starts: it reads the body and awaits User.findOne.
PostSignup(username, email, password) ==
    /\ Running
    /\ Len(req) < MaxReq
    /\ req' = Append(req, NewRequest("signup", username, email, password))
    /\ UNCHANGED <<users, secretkey, outbox, index, db, script>>

\* await User.findOne({ username }) settles; if (existingUser) return res.json(...)
SignupFindOne(r) ==
    /\ At(r, "signup", "findOne")
    /\ \E out \in Outcomes :
         LET q == req[r]
             existingUser == FindOne(users, q.username)
         IN Completes(out) /\ req' = [req EXCEPT ![r] =
                IF out # "ok" THEN Catch(q, "findOne", out)
                ELSE IF existingUser # <<>>
                     THEN Respond(q, Call("findOne", "doc"), Json(MsgTaken))
                ELSE Await(q, Call("findOne", "null"), "hash")]
    /\ UNCHANGED <<users, secretkey, outbox, index, db, script>>

\* await bcrypt.hash(password, 10) settles.
SignupHash(r) ==
    /\ At(r, "signup", "hash")
    /\ \E out \in Outcomes, salt \in Salts :
         LET q == req[r]
         IN req' = [req EXCEPT ![r] =
                IF out # "ok" THEN Catch(q, "hash", out)
                ELSE [Await(q, Call("hash", "ok"), "create")
                         EXCEPT !.hashedPassword = <<BcryptHash(q.password, salt)>>]]
    /\ UNCHANGED <<users, secretkey, outbox, index, db, script>>

\* await User.create({ username, email, password: hashedPassword }) settles.
SignupCreate(r) ==
    /\ At(r, "signup", "create")
    /\ \E out \in Outcomes :
         LET q == req[r]
             doc == [username |-> q.username, email |-> q.email,
                     password |-> q.hashedPassword[1]]
         IN Completes(out) /\
            IF out # "ok"
            THEN /\ req' = [req EXCEPT ![r] = Catch(q, "create", out)]
                 /\ users' = users
            ELSE IF UniqueIndexViolated(users, q.username)
            THEN /\ req' = [req EXCEPT ![r] =
                        Respond(q, Call("create", "duplicate"),
                                Response(StatusError, MsgDupKey, <<>>))]
                 /\ users' = users
            ELSE /\ req' = [req EXCEPT ![r] = Await(q, Call("create", "ok"), "sendMail")]
                 /\ users' = Insert(users, doc)
    /\ UNCHANGED <<secretkey, outbox, index, db, script>>

\* await transporter.sendMail({...}) settles; res.json({ msg: "Signup successful..." })
SignupSendMail(r) ==
    /\ At(r, "signup", "sendMail")
    /\ \E out \in Outcomes :
         LET q == req[r]
         IN IF out # "ok"
            THEN /\ req' = [req EXCEPT ![r] = Catch(q, "sendMail", out)]
                 /\ outbox' = outbox
            ELSE /\ req' = [req EXCEPT ![r] =
                        Respond(q, Call("sendMail", "ok"), Json(MsgSignupOk))]
                 /\ outbox' = Append(outbox, [to |-> q.email, username |-> q.username])
    /\ UNCHANGED <<users, secretkey, index, db, script>>

----------------------------------------------------------------------------
(* POST /signin *)

PostSignin(username, password) ==
    /\ Running
    /\ Len(req) < MaxReq
    /\ req' = Append(req, NewRequest("signin", username, "", password))
    /\ UNCHANGED <<users, secretkey, outbox, index, db, script>>

\* await User.findOne({ username }) settles; if (!user) return res.json(...)
SigninFindOne(r) ==
    /\ At(r, "signin", "findOne")
    /\ \E out \in Outcomes :
         LET q == req[r]
             user == FindOne(users, q.username)
         IN Completes(out) /\ req' = [req EXCEPT ![r] =
                IF out # "ok" THEN Catch(q, "findOne", out)
                ELSE IF user = <<>>
                     THEN Respond(q, Call("findOne", "null"), Json(MsgNotFound))
                ELSE [Await(q, Call("findOne", "doc"), "compare") EXCEPT !.user = user]]
    /\ UNCHANGED <<users, secretkey, outbox, index, db, script>>

\* A signin that lets every compared password through.
NeverRejected(isMatch) == FALSE

\* if (!isMatch) return res.json({ msg: "Invalid username or password" })
Rejected(isMatch) == ~isMatch

\* await bcrypt.compare(password, user.password) settles; then jwt.sign and the
\* response, with no await in between.
SigninCompare(r) ==
    /\ At(r, "signin", "compare")
    /\ \E out \in Outcomes, now \in Clocks :
         LET q == req[r]
             isMatch == BcryptCompare(q.password, q.user[1].password)
             compared == Await(q, Call("compare", IF isMatch THEN "true" ELSE "false"),
                               "sign")
         IN req' = [req EXCEPT ![r] =
                IF out # "ok" THEN Catch(q, "compare", out)
                ELSE IF Rejected(isMatch)
                     THEN Respond(q, Call("compare", "false"), Json(MsgInvalid))
                ELSE IF secretkey = <<>>
                     THEN Catch(compared, "sign", MsgNoSecret)
                ELSE Respond([compared EXCEPT !.clock = now], Call("sign", "ok"),
                             Response(StatusOk, MsgLoginOk,
                                      <<JwtSign(q.username, secretkey[1], now)>>))]
    /\ UNCHANGED <<users, secretkey, outbox, index, db, script>>

----------------------------------------------------------------------------
(* The server under arbitrary, concurrent clients *)

Resume(r) ==
    \/ SignupFindOne(r)
    \/ SignupHash(r)
    \/ SignupCreate(r)
    \/ SignupSendMail(r)
    \/ SigninFindOne(r)
    \/ SigninCompare(r)

Next ==
    \/ \E u \in Usernames, e \in Emails, p \in Passwords : PostSignup(u, e, p)
    \/ \E u \in Usernames, p \in Passwords : PostSignin(u, p)
    \/ \E r \in 1..MaxReq : Resume(r)
    \/ ConnectDB
    \/ EnsureIndexes

Spec == Init /\ [][Next]_vars

\* Every awaited collaborator call, mongoose.connect included, eventually returns
\* or fails.
FairSpec == Spec /\ WF_vars(ConnectDB) /\ \A r \in 1..MaxReq : WF_vars(Resume(r))

----------------------------------------------------------------------------
(* The server on a database that already has the unique username index     *)
(* (built by an earlier run): the background build finds it and changes    *)
(* nothing.                                                                *)

InitIndexed ==
    /\ users = <<>>
    /\ secretkey \in {<<>>} \cup {<<k>> : k \in Keys}
    /\ req = <<>>
    /\ outbox = <<>>
    /\ index = "built"
    /\ db = "connecting"
    /\ script = <<>>

NextIndexed ==
    \/ \E u \in Usernames, e \in Emails, p \in Passwords : PostSignup(u, e, p)
    \/ \E u \in Usernames, p \in Passwords : PostSignin(u, p)
    \/ \E r \in 1..MaxReq : Resume(r)
    \/ ConnectDB

IndexedSpec == InitIndexed /\ [][NextIndexed]_vars

----------------------------------------------------------------------------
(* The server under one sequential client running the scenario of spec 8 *)

Body(kind, username, email, password) ==
    [kind |-> kind, username |-> username, email |-> email, password |-> password]

\* signup(u, e, p); signup(u, e2, p3); signin(u, p); signin(u, p2)
Scenario(u, e, p, e2, p3, p2) ==
    <<Body("signup", u, e, p), Body("signup", u, e2, p3),
      Body("signin", u, "", p), Body("signin", u, "", p2)>>

InitScenario ==
    /\ users = <<>>
    /\ secretkey \in {<<>>} \cup {<<k>> : k \in Keys}
    /\ req = <<>>
    /\ outbox = <<>>
    /\ index = "absent"
    /\ db = "connecting"
    /\ script \in {Scenario(u, e, p, e2, p3, p2) :
                     u \in Usernames, e \in Emails, e2 \in Emails,
                     p \in Passwords, p3 \in Passwords, p2 \in Passwords}
    /\ script[3].password # script[4].password

\* The client sends its next request once every earlier one has been answered.
ScriptedPost ==
    /\ Running
    /\ Len(req) < Len(script)
    /\ \A r \in DOMAIN req : req[r].pc = "done"
    /\ LET b == script[Len(req) + 1]
       IN req' = Append(req, NewRequest(b.kind, b.username, b.email, b.password))
    /\ UNCHANGED <<users, secretkey, outbox, index, db, script>>

ScenarioLen == Len(Scenario("alice", "a@x.com", Secret1, "a@x.com", Secret1, Secret1))

NextScenario ==
    \/ ScriptedPost
    \/ \E r \in 1..ScenarioLen : Resume(r)
    \/ ConnectDB
    \/ EnsureIndexes

ScenarioSpec == InitScenario /\ [][NextScenario]_vars

----------------------------------------------------------------------------
(* Observations on requests *)

Done(r) == r \in DOMAIN req /\ req[r].pc = "done"

Settled(q, op, result) == \E i \in 1..Len(q.calls) : q.calls[i] = Call(op, result)

Called(q, op) == \E i \in 1..Len(q.calls) : q.calls[i].op = op

Faulted(q) == \E i \in 1..Len(q.calls) : q.calls[i].result = "error"

LastCall(q) == q.calls[Len(q.calls)]

Answered(q, response) == q.resp = <<response>>

HasToken(q) == \E i \in 1..Len(q.resp) : q.resp[i].tokenKey # <<>>

DoneSignups == {r \in DOMAIN req : Done(r) /\ req[r].kind = "signup"}

DoneSignins == {r \in DOMAIN req : Done(r) /\ req[r].kind = "signin"}

----------------------------------------------------------------------------
(* C1: of two signups for one username at most one is answered with the    *)
(* success message, and a signup whose insert is refused by the unique     *)
(* index (it lost the race) is answered "Username already exists".         *)
C1_OneSucceedsOtherTaken ==
    \A r1 \in DoneSignups, r2 \in DoneSignups :
        (r1 # r2 /\ req[r1].username = req[r2].username) =>
            /\ ~(Answered(req[r1], Json(MsgSignupOk)) /\ Answered(req[r2], Json(MsgSignupOk)))
            /\ Settled(req[r2], "create", "duplicate") => Answered(req[r2], Json(MsgTaken))

(* C2: the users collection never holds two documents of one username.     *)
C2_UniqueUsername ==
    \A u \in Usernames : Cardinality(Matching(users, u)) <= 1

(* C3: a signup that stored its document and whose welcome mail then       *)
(* failed is still answered with the success message, and the document     *)
(* stays stored.                                                           *)
C3_MailFailureStillOk ==
    \A r \in DoneSignups :
        (Settled(req[r], "create", "ok") /\ Settled(req[r], "sendMail", "error")) =>
            /\ Answered(req[r], Json(MsgSignupOk))
            /\ Matching(users, req[r].username) # {}

(* C4: a signin whose lookup finds nothing answers "User not found" and    *)
(* never calls bcrypt.compare; a signin whose compare says false answers   *)
(* "Invalid username or password"; neither signs a token, and a token is   *)
(* in a response only when the lookup found a document and compare said    *)
(* true.                                                                   *)
C4_SigninGating ==
    \A r \in DOMAIN req :
        LET q == req[r]
        IN /\ (q.kind = "signin" /\ Settled(q, "findOne", "null")) =>
                 /\ Answered(q, Json(MsgNotFound))
                 /\ ~Called(q, "compare")
                 /\ ~Called(q, "sign")
           /\ (q.kind = "signin" /\ Settled(q, "compare", "false")) =>
                 /\ Answered(q, Json(MsgInvalid))
                 /\ ~Called(q, "sign")
           /\ (HasToken(q) \/ Called(q, "sign")) =>
                 /\ q.kind = "signin"
                 /\ Settled(q, "findOne", "doc")
                 /\ Settled(q, "compare", "true")

\* A signin found the document, compared a wrong password and was turned away.
C4_Witness ==
    \E r \in DoneSignins :
        /\ Settled(req[r], "findOne", "doc")
        /\ Settled(req[r], "compare", "false")
        /\ Answered(req[r], Json(MsgInvalid))

(* C5: the response to a failed collaborator call does not depend on the   *)
(* collaborator's error text: two requests of the same kind whose same     *)
(* call failed are answered alike.                                         *)
C5_GenericFailure ==
    \A r1 \in DOMAIN req, r2 \in DOMAIN req :
        ( /\ Done(r1) /\ Done(r2)
          /\ req[r1].kind = req[r2].kind
          /\ req[r1].username = req[r2].username
          /\ Faulted(req[r1]) /\ Faulted(req[r2])
          /\ LastCall(req[r1]) = LastCall(req[r2]) )
        => req[r1].resp = req[r2].resp

(* C6: every request gets exactly one response: never more than one, one   *)
(* exactly when its handler has returned, and every request received is    *)
(* eventually answered, whichever call fails (every awaited call         *)
(* eventually settling).                                                   *)
C6_ExactlyOneResponse ==
    /\ [](\A r \in DOMAIN req :
            /\ Len(req[r].resp) <= 1
            /\ (req[r].pc = "done") <=> (Len(req[r].resp) = 1))
    /\ \A r \in 1..MaxReq :
            (r \in DOMAIN req) ~> (Done(r) /\ Len(req[r].resp) = 1)

(* C7: with every collaborator working, the sequential run signup(u,e,p);  *)
(* signup(u,e2,p3); signin(u,p); signin(u,p2) with p # p2 is answered, in  *)
(* order: success; "Username already exists"; "Login successful" with a    *)
(* token; "Invalid username or password".                                  *)
C7_ScenarioOutcomes ==
    ( /\ Len(req) = Len(script)
      /\ \A r \in DOMAIN req : Done(r) /\ ~Faulted(req[r]) )
    => /\ Answered(req[1], Json(MsgSignupOk))
       /\ Answered(req[2], Json(MsgTaken))
       /\ Len(req[3].resp) = 1
       /\ req[3].resp[1].msg = MsgLoginOk
       /\ req[3].resp[1].tokenKey # <<>>
       /\ Answered(req[4], Json(MsgInvalid))

----------------------------------------------------------------------------
Token(q) == q.resp[1].tokenKey[1]

Minute == 60 * MsPerSecond

(* C8 as first stated: a token signed at clock time T (Date.now(), in ms)  *)
(* carries the signin's username and expires at exactly T + 60 min; it is  *)
(* valid at T and at T + 59 min and not at T + 61 min.                     *)
C8_ExpiryExactlyOneHourAfterClock ==
    \A r \in DoneSignins :
        HasToken(req[r]) =>
            LET T == req[r].clock
            IN /\ Token(req[r]).username = req[r].username
               /\ Token(req[r]).exp * MsPerSecond = T + 60 * Minute
               /\ JwtValid(Token(req[r]), secretkey[1], T)
               /\ JwtValid(Token(req[r]), secretkey[1], T + 59 * Minute)
               /\ ~JwtValid(Token(req[r]), secretkey[1], T + 61 * Minute)

(* C8 as amended: a token signed at clock time T carries the signin's      *)
(* username and expires exactly 60 min after T rounded down to the whole   *)
(* second (its issued-at), so within the last second before T + 60 min; it *)
(* is valid at T and at T + 59 min and not at T + 61 min.                  *)
C8_ExpiryOneHourAfterIssuedAt ==
    \A r \in DoneSignins :
        HasToken(req[r]) =>
            LET T == req[r].clock
            IN /\ Token(req[r]).username = req[r].username
               /\ Token(req[r]).iat * MsPerSecond = T - (T % MsPerSecond)
               /\ Token(req[r]).exp * MsPerSecond = T - (T % MsPerSecond) + 60 * Minute
               /\ JwtValid(Token(req[r]), secretkey[1], T)
               /\ JwtValid(Token(req[r]), secretkey[1], T + 59 * Minute)
               /\ ~JwtValid(Token(req[r]), secretkey[1], T + 61 * Minute)

\* A token was signed at a clock time that is not a whole second.
C8_Witness ==
    \E r \in DoneSignins :
        /\ HasToken(req[r])
        /\ req[r].clock % MsPerSecond # 0

----------------------------------------------------------------------------
(* C9: no step changes or removes a stored document: every step keeps the  *)
(* documents it found, a step that changes the collection is a signup's    *)
(* successful insert and adds exactly one document, and so signins, and    *)
(* signups answered "Username already exists" or failing (the mail step    *)
(* included), leave the collection as it was.                              *)
C9_RecordsNeverChanged ==
    [][ /\ Len(users') >= Len(users)
        /\ \A i \in 1..Len(users) : users'[i] = users[i]
        /\ users' # users =>
             /\ Len(users') = Len(users) + 1
             /\ \E r \in DOMAIN req :
                  /\ At(r, "signup", "create")
                  /\ req'[r].pc = "sendMail"
                  /\ users'[Len(users')].username = req[r].username
                  /\ \A o \in DOMAIN req \ {r} : req'[o] = req[o]
      ]_vars

\* Two documents are stored, and the mail step of one of the two signups failed.
C9_Witness ==
    /\ Len(users) = 2
    /\ \E r \in DoneSignups : Settled(req[r], "sendMail", "error")

----------------------------------------------------------------------------
(* C10: given the unique username index (IndexedSpec),                     *)
(* a signup calls sendMail only after its own insert succeeded, so a       *)
(* request answered "Username already exists" or whose hash or insert      *)
(* failed sends none, and over all signups at most one welcome mail is     *)
(* attempted, and at most one sent, for a username.                        *)
C10_OneWelcomeMailPerUsername ==
    /\ \A r \in DOMAIN req :
          (Called(req[r], "sendMail") \/ req[r].pc = "sendMail") =>
              /\ req[r].kind = "signup"
              /\ Settled(req[r], "create", "ok")
              /\ ~Answered(req[r], Json(MsgTaken))
    /\ \A u \in Usernames :
          /\ Cardinality({r \in DOMAIN req : req[r].username = u /\
                            (Called(req[r], "sendMail") \/ req[r].pc = "sendMail")}) <= 1
          /\ Cardinality({i \in 1..Len(outbox) : outbox[i].username = u}) <= 1

\* Two signups of one username raced: one sent its welcome mail, the other's insert
\* was refused and it sent none.
C10_Witness ==
    \E r1 \in DoneSignups, r2 \in DoneSignups :
        /\ req[r1].username = req[r2].username
        /\ Settled(req[r1], "sendMail", "ok")
        /\ Settled(req[r2], "create", "duplicate")
        /\ Len(outbox) = 1

====
